---------------------------- MODULE Spec2Model ----------------------------
(***************************************************************************)
(* Model of scripts/streaming-metrics-report.py: the report pipeline       *)
(* main -> load_rows -> build_metrics -> render/write, with the SQLite     *)
(* value domain (NULL, INTEGER, REAL, TEXT) and the Python operations the  *)
(* code applies to it (truthiness, str, int, lower, strip, round, sorted,  *)
(* Counter.most_common).                                                   *)
(*                                                                         *)
(* A Python str is a sequence of one-character strings.  A float that the  *)
(* report carries (a rate, a mean, a median, a p90) is the exact rational  *)
(* <<numerator, denominator>> the division or conversion yields.           *)
(***************************************************************************)
EXTENDS Integers, Sequences, FiniteSets, TLC

VARIABLES
    pc,               \* position of main: start, connected, loaded, built, dir_ready, md_written, except, finally, done
    tableCols,        \* the columns PRAGMA table_info(recordings) reports
    store,            \* the rows of the recordings table, in the store's order
    days,             \* args.days
    now,              \* the UTC clock, in seconds since the epoch
    conn,             \* the connection: "none", "open", "closed"
    nClose,           \* how many times conn.close() has run
    queries,          \* the statements executed on the cursor, in order
    rows,             \* what load_rows returned
    exc,              \* the exception a stage raised: [type, cols], type "none" when none
    report,           \* what build_metrics returned, NoReport before
    first_partial_ms, \* build_metrics' local sample list, as left when it returns
    first_final_ms,   \* build_metrics' local sample list, as left when it returns
    written,          \* the output files written so far, a subset of {"md", "json"}
    exitCode          \* main's return value, -1 while running

vars == <<pc, tableCols, store, days, now, conn, nClose, queries, rows, exc,
          report, first_partial_ms, first_final_ms, written, exitCode>>

(***************************************************************************)
(* Bounds of the model.                                                    *)
(***************************************************************************)
MaxStore == 2      \* rows in the store, pipeline specification
MaxRows == 3       \* rows handed to build_metrics, aggregation specification
MaxSamples == 6    \* rows of the latency slice, aggregation specification

(***************************************************************************)
(* Generic sequence helpers.                                               *)
(***************************************************************************)
Range(s) == {s[i] : i \in 1..Len(s)}

SeqsUpTo(S, n) == UNION {[1..k -> S] : k \in 0..n}

RECURSIVE SumSeq(_)
SumSeq(s) == IF s = <<>> THEN 0 ELSE Head(s) + SumSeq(Tail(s))

(***************************************************************************)
(* SQLite values as Python receives them through sqlite3.Row.              *)
(*   null: None        int: n        real: n tenths (a finite float)       *)
(*   inf: float("inf") (a REAL column holds it, e.g. 9e999)                *)
(*   text: the str s                                                       *)
(***************************************************************************)
Null == [kind |-> "null", s |-> <<>>, n |-> 0]
IntV(i) == [kind |-> "int", s |-> <<>>, n |-> i]
RealV(tenths) == [kind |-> "real", s |-> <<>>, n |-> tenths]
InfV == [kind |-> "inf", s |-> <<>>, n |-> 0]
Text(cs) == [kind |-> "text", s |-> cs, n |-> 0]

\* Python truthiness: None, 0, 0.0 and "" are falsy.
Truthy(v) ==
    CASE v.kind = "null" -> FALSE
      [] v.kind = "int" -> v.n # 0
      [] v.kind = "real" -> v.n # 0
      [] v.kind = "inf" -> TRUE
      [] v.kind = "text" -> v.s # <<>>

\* The expression `v or d`.
PyOr(v, d) == IF Truthy(v) THEN v ELSE d

Digits == <<"0", "1", "2", "3", "4", "5", "6", "7", "8", "9">>

RECURSIVE NatToStr(_)
NatToStr(n) ==
    IF n < 10 THEN <<Digits[n + 1]>>
    ELSE NatToStr(n \div 10) \o <<Digits[(n % 10) + 1]>>

IntToStr(i) == IF i < 0 THEN <<"-">> \o NatToStr(-i) ELSE NatToStr(i)

\* str(v)
PyStr(v) ==
    CASE v.kind = "null" -> <<"N", "o", "n", "e">>
      [] v.kind = "int" -> IntToStr(v.n)
      [] v.kind = "real" ->
            (IF v.n < 0 THEN <<"-">> ELSE <<>>)
            \o NatToStr((IF v.n < 0 THEN -v.n ELSE v.n) \div 10) \o <<".">>
            \o NatToStr((IF v.n < 0 THEN -v.n ELSE v.n) % 10)
      [] v.kind = "inf" -> <<"i", "n", "f">>
      [] v.kind = "text" -> v.s

UpperCase == <<"A", "B", "C", "D", "E", "F", "G", "H", "I", "J", "K", "L", "M",
               "N", "O", "P", "Q", "R", "S", "T", "U", "V", "W", "X", "Y", "Z">>
LowerCase == <<"a", "b", "c", "d", "e", "f", "g", "h", "i", "j", "k", "l", "m",
               "n", "o", "p", "q", "r", "s", "t", "u", "v", "w", "x", "y", "z">>

LowerChar(c) ==
    IF \E i \in 1..26 : UpperCase[i] = c
    THEN LowerCase[CHOOSE i \in 1..26 : UpperCase[i] = c]
    ELSE c

\* str.lower() left out
LowerLeftOut(cs) == cs

\* str.lower()
Lower(cs) == [i \in 1..Len(cs) |-> LowerChar(cs[i])]

Whitespace == {" ", "\t", "\n"}

RECURSIVE LStrip(_)
LStrip(cs) ==
    IF cs # <<>> /\ Head(cs) \in Whitespace THEN LStrip(Tail(cs)) ELSE cs

RECURSIVE RStrip(_)
RStrip(cs) ==
    IF cs # <<>> /\ cs[Len(cs)] \in Whitespace
    THEN RStrip(SubSeq(cs, 1, Len(cs) - 1))
    ELSE cs

\* str.strip()
Strip(cs) == RStrip(LStrip(cs))

IsDigit(c) == \E i \in 1..10 : Digits[i] = c
DigitVal(c) == (CHOOSE i \in 1..10 : Digits[i] = c) - 1

RECURSIVE DigitsToNat(_)
DigitsToNat(cs) ==
    IF cs = <<>> THEN 0
    ELSE 10 * DigitsToNat(SubSeq(cs, 1, Len(cs) - 1)) + DigitVal(cs[Len(cs)])

Ok(i) == [exc |-> "none", n |-> i]
Raises(type) == [exc |-> type, n |-> 0]

\* int(str): surrounding whitespace is ignored, an optional sign, then digits.
ParseInt(cs) ==
    LET t == Strip(cs)
        signed == t # <<>> /\ Head(t) \in {"+", "-"}
        body == IF signed THEN Tail(t) ELSE t
    IN  IF body # <<>> /\ \A i \in 1..Len(body) : IsDigit(body[i])
        THEN Ok(IF signed /\ Head(t) = "-" THEN -DigitsToNat(body) ELSE DigitsToNat(body))
        ELSE Raises("ValueError")

\* int(v): a float is truncated toward zero, float("inf") raises OverflowError.
PyInt(v) ==
    CASE v.kind = "null" -> Raises("TypeError")
      [] v.kind = "int" -> Ok(v.n)
      [] v.kind = "real" -> Ok(IF v.n < 0 THEN -((-v.n) \div 10) ELSE v.n \div 10)
      [] v.kind = "inf" -> Raises("OverflowError")
      [] v.kind = "text" -> ParseInt(v.s)

(***************************************************************************)
(* dict, defaultdict and Counter: a sequence of [key, val] items in        *)
(* insertion order (a Python dict iterates in insertion order).            *)
(***************************************************************************)
HasKey(d, k) == \E i \in 1..Len(d) : d[i].key = k

Get(d, k) == d[CHOOSE i \in 1..Len(d) : d[i].key = k].val

\* d.get(k, default)
GetOr(d, k, default) == IF HasKey(d, k) THEN Get(d, k) ELSE default

\* d[k] = v: a new key goes last, an old key keeps its place.
Put(d, k, v) ==
    IF HasKey(d, k)
    THEN [i \in 1..Len(d) |-> IF d[i].key = k THEN [key |-> k, val |-> v] ELSE d[i]]
    ELSE Append(d, [key |-> k, val |-> v])

\* counter[k] += 1
Incr(d, k) == Put(d, k, GetOr(d, k, 0) + 1)

\* sorted(items, key=..., reverse=True), counts[i] being the key of items[i]:
\* Python's sort is stable, and reverse=True keeps the original order of items
\* whose keys are equal.
SortedByCountDesc(items, counts) ==
    LET Insert(acc, i) ==
            LET ahead == Cardinality({j \in 1..Len(acc) : counts[acc[j]] >= counts[i]})
            IN  SubSeq(acc, 1, ahead) \o <<i>> \o SubSeq(acc, ahead + 1, Len(acc))
        sortedPrefix[i \in 0..Len(items)] ==
            IF i = 0 THEN <<>> ELSE Insert(sortedPrefix[i - 1], i)
    IN  [k \in 1..Len(items) |-> items[sortedPrefix[Len(items)][k]]]

\* Counter.most_common() with the entries of equal count in reverse insertion order
MostCommonTiesReversed(counter) ==
    LET Insert(acc, x) ==
            LET ahead == Cardinality({j \in 1..Len(acc) : acc[j].val > x.val})
            IN  SubSeq(acc, 1, ahead) \o <<x>> \o SubSeq(acc, ahead + 1, Len(acc))
        sortedPrefix[i \in 0..Len(counter)] ==
            IF i = 0 THEN <<>> ELSE Insert(sortedPrefix[i - 1], counter[i])
    IN  sortedPrefix[Len(counter)]

\* Counter.most_common(): sorted(self.items(), key=itemgetter(1), reverse=True)
MostCommon(counter) == SortedByCountDesc(counter, [i \in 1..Len(counter) |-> counter[i].val])

\* sorted(values) of a list of ints
Sorted(values) ==
    LET Insert(acc, x) ==
            LET ahead == Cardinality({j \in 1..Len(acc) : acc[j] <= x})
            IN  SubSeq(acc, 1, ahead) \o <<x>> \o SubSeq(acc, ahead + 1, Len(acc))
        sortedPrefix[i \in 0..Len(values)] ==
            IF i = 0 THEN <<>> ELSE Insert(sortedPrefix[i - 1], values[i])
    IN  sortedPrefix[Len(values)]

(***************************************************************************)
(* Floats.                                                                 *)
(***************************************************************************)
None == <<0, 0>>                    \* Python None where a float may stand
Float(i) == <<i, 1>>                \* float(i)
Div(a, b) == <<a, b>>               \* a / b, b # 0
Zero == <<0, 1>>                    \* the literal 0.0

\* round(x), a half rounded up
RoundHalfUp(num, den) ==
    IF 2 * (num % den) < den THEN num \div den ELSE (num \div den) + 1

\* round(x) of the float x = (p / 100.0) * k for integers p in 0..100, k >= 0.
\* Python rounds a float to the nearest integer, a half to the even neighbour.
\* The product is computed in binary floating point; for p = 90 it is the exact
\* p*k/100 whenever that is a half (0.9*5 is the float 4.5), so the result is the
\* round-half-even of the exact quotient.
RoundHalfEven(num, den) ==
    LET q == num \div den
        twice == 2 * (num % den)
    IN  IF twice < den THEN q
        ELSE IF twice > den THEN q + 1
        ELSE IF q % 2 = 0 THEN q ELSE q + 1

Max(a, b) == IF a >= b THEN a ELSE b
Min(a, b) == IF a <= b THEN a ELSE b

\* percentile(values, p): [result, values], the second being the caller's list
\* after the call (sorted() builds a new list and rebinds the local name).
percentile(values, p) ==
    IF values = <<>> THEN [result |-> None, values |-> values]
    ELSE LET sortedValues == Sorted(values)
             idx == Max(0, Min(Len(values) - 1, RoundHalfEven(p * (Len(values) - 1), 100)))
         IN  [result |-> Float(sortedValues[idx + 1]), values |-> values]

\* statistics.mean
mean(values) == Div(SumSeq(values), Len(values))

\* statistics.median: the middle of the sorted data, the mean of the two middle
\* values when their number is even.
median(values) ==
    LET data == Sorted(values)
        n == Len(data)
    IN  IF n % 2 = 1 THEN Float(data[(n \div 2) + 1])
        ELSE Div(data[n \div 2] + data[(n \div 2) + 1], 2)

(***************************************************************************)
(* build_metrics                                                           *)
(***************************************************************************)
NoExc == [type |-> "none", cols |-> <<>>]
Exc(type) == [type |-> type, cols |-> <<>>]

NoReport == [built |-> FALSE]

LatencyNone == [count |-> 0, mean |-> None, median |-> None, p90 |-> None]

\* The empty report with window_days fixed at 0
EmptyReportWindowZero(d, generatedAt) ==
    [built |-> TRUE,
     generated_at |-> generatedAt,
     window_days |-> 0,
     totals |-> [recordings |-> 0, success |-> 0, errors |-> 0,
                 empty_final |-> 0, fallback_used |-> 0],
     rates |-> [error_rate |-> Zero, empty_final_rate |-> Zero, fallback_rate |-> Zero],
     latency |-> [first_partial_ms |-> LatencyNone, first_final_ms |-> LatencyNone],
     providers |-> <<>>,
     modes |-> <<>>,
     error_codes |-> <<>>,
     provider_mode_matrix |-> <<>>]

\* The report of the `if not rows` branch.
EmptyReport(d, generatedAt) ==
    [built |-> TRUE,
     generated_at |-> generatedAt,
     window_days |-> d,
     totals |-> [recordings |-> 0, success |-> 0, errors |-> 0,
                 empty_final |-> 0, fallback_used |-> 0],
     rates |-> [error_rate |-> Zero, empty_final_rate |-> Zero, fallback_rate |-> Zero],
     latency |-> [first_partial_ms |-> LatencyNone, first_final_ms |-> LatencyNone],
     providers |-> <<>>,
     modes |-> <<>>,
     error_codes |-> <<>>,
     provider_mode_matrix |-> <<>>]

\* is_empty(value)
is_empty(value) == value.kind = "null" \/ Strip(PyStr(value)) = <<>>

GroupZero == [count |-> 0, empty_final |-> 0, fallback |-> 0]

\* The locals of build_metrics before the loop.
LoopInit ==
    [exc |-> "none",
     total_success |-> 0, total_errors |-> 0, empty_final |-> 0, fallback |-> 0,
     provider_counts |-> <<>>, mode_counts |-> <<>>,
     per_provider |-> <<>>, per_mode |-> <<>>, per_provider_mode |-> <<>>,
     first_partial_ms |-> <<>>, first_final_ms |-> <<>>,
     error_codes |-> <<>>]

\* The try/except around int(row[...]) for a latency field, r being the int(...):
\* the sample list after it, and the exception that escapes (TypeError and
\* ValueError are swallowed).
TryAppend(samples, r) ==
    IF r.exc = "none" THEN [exc |-> "none", samples |-> Append(samples, r.n)]
    ELSE IF r.exc \in {"TypeError", "ValueError"}
         THEN [exc |-> "none", samples |-> samples]
         ELSE [exc |-> r.exc, samples |-> samples]

\* `if row[...] is not None:` and the try/except under it
LatencySample(samples, value) ==
    IF value.kind = "null" THEN [exc |-> "none", samples |-> samples]
    ELSE TryAppend(samples, PyInt(value))

\* Whether the row adds to the error_codes tally: `if row["error_code"]:`
CountsErrorCode(row) == Truthy(row.error_code)

\* Whether the row counts as a success: `if status == "success":`
IsSuccess(status) == status = <<"s", "u", "c", "c", "e", "s", "s">>

\* The statements of the loop body, each on the locals `a`; once a statement has
\* raised, the rest of the loop is skipped.

\* per[k][field] += 1 on a defaultdict of group counters
IncrGroup(per, k, field) ==
    Put(per, k, [GetOr(per, k, GroupZero) EXCEPT ![field] = @ + 1])

\* lines 201-210: the group counters and the success/error totals
CountRow(a, provider, mode, status) ==
    [a EXCEPT
       !.provider_counts = Incr(@, provider),
       !.mode_counts = Incr(@, mode),
       !.per_provider = IncrGroup(@, provider, "count"),
       !.per_mode = IncrGroup(@, mode, "count"),
       !.per_provider_mode =
           Put(@, <<provider, mode>>,
               [count |-> GetOr(@, <<provider, mode>>, [count |-> 0]).count + 1]),
       !.total_success = IF IsSuccess(status) THEN @ + 1 ELSE @,
       !.total_errors = IF IsSuccess(status) THEN @ ELSE @ + 1]

\* lines 212-215: `if is_empty(transcript):`
CountEmptyFinal(a, provider, mode, transcript) ==
    IF is_empty(transcript)
    THEN [a EXCEPT
            !.empty_final = @ + 1,
            !.per_provider = IncrGroup(@, provider, "empty_final"),
            !.per_mode = IncrGroup(@, mode, "empty_final")]
    ELSE a

\* lines 217-220: `if int(row["fallback_used"] or 0) != 0:`, fb being the int(...)
CountFallback(a, provider, mode, fb) ==
    IF fb.exc # "none" THEN [a EXCEPT !.exc = fb.exc]
    ELSE IF fb.n # 0
    THEN [a EXCEPT
            !.fallback = @ + 1,
            !.per_provider = IncrGroup(@, provider, "fallback"),
            !.per_mode = IncrGroup(@, mode, "fallback")]
    ELSE a

\* lines 222-223: `if row["error_code"]:`
CountErrorCode(a, row) ==
    IF a.exc # "none" THEN a
    ELSE IF CountsErrorCode(row)
    THEN [a EXCEPT !.error_codes = Incr(@, Strip(PyStr(row.error_code)))]
    ELSE a

\* lines 225-229, s being LatencySample(a.first_partial_ms, row["first_partial_ms"])
AppendPartial(a, s) ==
    IF a.exc # "none" THEN a ELSE [a EXCEPT !.first_partial_ms = s.samples, !.exc = s.exc]

\* lines 230-234
AppendFinal(a, s) ==
    IF a.exc # "none" THEN a ELSE [a EXCEPT !.first_final_ms = s.samples, !.exc = s.exc]

SamplePartial(a, row) == AppendPartial(a, LatencySample(a.first_partial_ms, row.first_partial_ms))
SampleFinal(a, row) == AppendFinal(a, LatencySample(a.first_final_ms, row.first_final_ms))

\* One iteration of `for row in rows`.
LoopBody(a, row) ==
    LET provider == Lower(PyStr(PyOr(row.asr_provider_id, Text(<<"u", "n", "k", "n", "o", "w", "n">>))))
        mode == Lower(PyStr(PyOr(row.stream_mode, Text(<<"b", "a", "t", "c", "h">>))))
        status == Lower(PyStr(PyOr(row.status, Text(<<>>))))
    IN  IF a.exc # "none" THEN a
        ELSE SampleFinal(
               SamplePartial(
                 CountErrorCode(
                   CountFallback(
                     CountEmptyFinal(CountRow(a, provider, mode, status),
                                     provider, mode, row.transcript_final),
                     provider, mode, PyInt(PyOr(row.fallback_used, IntV(0)))),
                   row),
                 row),
               row)

\* `for row in rows`: the locals after the loop, or at the statement that raised.
Loop(rs) ==
    LET after[i \in 0..Len(rs)] ==
            IF i = 0 THEN LoopInit ELSE LoopBody(after[i - 1], rs[i])
    IN  after[Len(rs)]

\* empty_count / total_count if total_count else 0.0
Rate(count, total) == IF total # 0 THEN Div(count, total) ELSE Zero

\* The providers (or modes) list with the rates taken over all recordings
BreakdownOverAllRecordings(counts, per) ==
    LET ordered == MostCommon(counts)
        all == SumSeq([i \in 1..Len(counts) |-> counts[i].val])
    IN  [i \in 1..Len(ordered) |->
            [name |-> ordered[i].key,
             recordings |-> ordered[i].val,
             empty_final |-> Get(per, ordered[i].key).empty_final,
             fallback |-> Get(per, ordered[i].key).fallback,
             empty_final_rate |-> Rate(Get(per, ordered[i].key).empty_final, all),
             fallback_rate |-> Rate(Get(per, ordered[i].key).fallback, all)]]

\* The providers (or modes) list: one entry per key of the counter, in most_common()
\* order; `name` is the entry's "provider" (or "mode").
Breakdown(counts, per) ==
    LET ordered == MostCommon(counts)
    IN  [i \in 1..Len(ordered) |->
            LET name == ordered[i].key
                total_count == ordered[i].val
                empty_count == Get(per, name).empty_final
                fallback_count == Get(per, name).fallback
            IN  [name |-> name,
                 recordings |-> total_count,
                 empty_final |-> empty_count,
                 fallback |-> fallback_count,
                 empty_final_rate |-> Rate(empty_count, total_count),
                 fallback_rate |-> Rate(fallback_count, total_count)]]

\* sorted(per_provider_mode.items(), key=lambda item: item[1]["count"], reverse=True)
Matrix(per_provider_mode) ==
    LET ordered == SortedByCountDesc(per_provider_mode,
                      [i \in 1..Len(per_provider_mode) |-> per_provider_mode[i].val.count])
    IN  [i \in 1..Len(ordered) |->
            [provider |-> ordered[i].key[1], mode |-> ordered[i].key[2],
             recordings |-> ordered[i].val.count]]

\* [{"code": code, "count": count} for code, count in error_codes.most_common()]
ErrorCodes(error_codes) ==
    LET ordered == MostCommon(error_codes)
    IN  [i \in 1..Len(ordered) |-> [code |-> ordered[i].key, count |-> ordered[i].val]]

\* One entry of report["latency"], and the caller's list as percentile(samples, 90),
\* whose return is p, left it.
LatencyEntry(samples, p) ==
    [stats |-> [count |-> Len(samples),
                mean |-> IF samples # <<>> THEN mean(samples) ELSE None,
                median |-> IF samples # <<>> THEN median(samples) ELSE None,
                p90 |-> p.result],
     samples |-> p.values]

Latency(samples) == LatencyEntry(samples, percentile(samples, 90))

\* The return statement of the non-empty branch, on the locals `a` after the loop.
Return(a, total, d, generatedAt, lp, lf) ==
    IF a.exc # "none"
    THEN [exc |-> a.exc, report |-> NoReport,
          first_partial_ms |-> a.first_partial_ms, first_final_ms |-> a.first_final_ms]
    ELSE [exc |-> "none",
          report |->
            [built |-> TRUE,
             generated_at |-> generatedAt,
             window_days |-> d,
             totals |-> [recordings |-> total, success |-> a.total_success,
                         errors |-> a.total_errors, empty_final |-> a.empty_final,
                         fallback_used |-> a.fallback],
             rates |-> [error_rate |-> Rate(a.total_errors, total),
                        empty_final_rate |-> Rate(a.empty_final, total),
                        fallback_rate |-> Rate(a.fallback, total)],
             latency |-> [first_partial_ms |-> lp.stats, first_final_ms |-> lf.stats],
             providers |-> Breakdown(a.provider_counts, a.per_provider),
             modes |-> Breakdown(a.mode_counts, a.per_mode),
             error_codes |-> ErrorCodes(a.error_codes),
             provider_mode_matrix |-> Matrix(a.per_provider_mode)],
          first_partial_ms |-> lp.samples, first_final_ms |-> lf.samples]

Finish(a, total, d, generatedAt) ==
    Return(a, total, d, generatedAt, Latency(a.first_partial_ms), Latency(a.first_final_ms))

\* build_metrics(rows, days): [exc, report, first_partial_ms, first_final_ms]
build_metrics(rs, d, generatedAt) ==
    IF rs = <<>>
    THEN [exc |-> "none", report |-> EmptyReport(d, generatedAt),
          first_partial_ms |-> <<>>, first_final_ms |-> <<>>]
    ELSE Finish(Loop(rs), Len(rs), d, generatedAt)

(***************************************************************************)
(* load_rows                                                               *)
(***************************************************************************)
SecondsPerDay == 86400

\* `required` without status
requiredWithoutStatus == {"asr_provider_id", "transcript_final", "created_at"}

required == {"asr_provider_id", "transcript_final", "status", "created_at"}

\* The keys of `optional`.
optional == {"stream_mode", "first_partial_ms", "first_final_ms", "fallback_used", "error_code"}

\* The fallback expressions of `optional`: NULL AS name, and 0 AS fallback_used.
FallbackExpr(name) == IF name = "fallback_used" THEN IntV(0) ELSE Null

\* sorted(missing): the required names in lexicographic order.
SortedNames(names) ==
    LET order == <<"asr_provider_id", "created_at", "status", "transcript_final">>
        keep == {i \in 1..4 : order[i] \in names}
        nth(k) == CHOOSE i \in keep : Cardinality({j \in keep : j < i}) = k - 1
    IN  [k \in 1..Cardinality(keep) |-> order[nth(k)]]

\* The row the SELECT yields for a stored row: a column of the table, or the
\* fallback expression of an optional column the table lacks.
Project(cols, r) ==
    [c \in required \cup optional |->
        IF c \in optional /\ c \notin cols THEN FallbackExpr(c) ELSE r[c]]

\* The WHERE clause written with > in place of >=
InWindowStrict(created_at, cutoff) ==
    CASE created_at.kind = "null" -> FALSE
      [] created_at.kind = "int" -> created_at.n > cutoff
      [] created_at.kind = "real" -> created_at.n > 10 * cutoff
      [] created_at.kind = "inf" -> TRUE
      [] created_at.kind = "text" -> TRUE

\* SQLite's `created_at >= ?` against a numeric bound: NULL compares as unknown,
\* which WHERE rejects; TEXT sorts after every number.
InWindow(created_at, cutoff) ==
    CASE created_at.kind = "null" -> FALSE
      [] created_at.kind = "int" -> created_at.n >= cutoff
      [] created_at.kind = "real" -> created_at.n >= 10 * cutoff
      [] created_at.kind = "inf" -> TRUE
      [] created_at.kind = "text" -> TRUE

\* fetchall() of the SELECT: the stored rows, in order, that pass the WHERE.
Select(cols, stored, filtered, cutoff) ==
    LET picked[i \in 0..Len(stored)] ==
            IF i = 0 THEN <<>>
            ELSE IF ~filtered \/ InWindow(stored[i].created_at, cutoff)
                 THEN Append(picked[i - 1], Project(cols, stored[i]))
                 ELSE picked[i - 1]
    IN  picked[Len(stored)]

\* load_rows(conn, days): [exc, rows, queries]
load_rows(cols, stored, d, clock) ==
    LET missing == required \ cols
        cutoff == clock - d * SecondsPerDay
    IN  IF missing # {}
        THEN [exc |-> [type |-> "RuntimeError", cols |-> SortedNames(missing)],
              rows |-> <<>>, queries |-> <<"PRAGMA">>]
        ELSE [exc |-> NoExc, rows |-> Select(cols, stored, d > 0, cutoff),
              queries |-> <<"PRAGMA", "SELECT">>]

(***************************************************************************)
(* main                                                                    *)
(***************************************************************************)
\* resolve_db and sqlite3.connect succeed.
Connect ==
    /\ pc = "start"
    /\ conn' = "open"
    /\ pc' = "connected"
    /\ UNCHANGED <<tableCols, store, days, now, nClose, queries, rows, exc, report,
                   first_partial_ms, first_final_ms, written, exitCode>>

\* resolve_db or sqlite3.connect raises: print the error, return 1.
ConnectFails ==
    /\ pc = "start"
    /\ exc' = Exc("FileNotFoundError")
    /\ exitCode' = 1
    /\ pc' = "done"
    /\ UNCHANGED <<tableCols, store, days, now, conn, nClose, queries, rows, report,
                   first_partial_ms, first_final_ms, written>>

\* The outcome r of load_rows reaches main: the rows, or the exception.
LoadRowsReturns(r) ==
    /\ queries' = queries \o r.queries
    /\ exc' = r.exc
    /\ rows' = r.rows
    /\ pc' = IF r.exc.type = "none" THEN "loaded" ELSE "except"

\* rows = load_rows(conn, args.days)
LoadRows ==
    /\ pc = "connected"
    /\ LoadRowsReturns(load_rows(tableCols, store, days, now))
    /\ UNCHANGED <<tableCols, store, days, now, conn, nClose, report,
                   first_partial_ms, first_final_ms, written, exitCode>>

\* The outcome r of build_metrics reaches main: the report, or the exception.
BuildMetricsReturns(r) ==
    /\ exc' = Exc(r.exc)
    /\ report' = r.report
    /\ first_partial_ms' = r.first_partial_ms
    /\ first_final_ms' = r.first_final_ms
    /\ pc' = IF r.exc = "none" THEN "built" ELSE "except"

\* report = build_metrics(rows, args.days)
BuildMetrics ==
    /\ pc = "loaded"
    /\ BuildMetricsReturns(build_metrics(rows, days, now))
    /\ UNCHANGED <<tableCols, store, days, now, conn, nClose, queries, rows,
                   written, exitCode>>

\* output_dir.mkdir(parents=True, exist_ok=True), which the file system may refuse
MakeOutputDir ==
    /\ pc = "built"
    /\ \E ok \in BOOLEAN :
          /\ pc' = IF ok THEN "dir_ready" ELSE "except"
          /\ exc' = IF ok THEN exc ELSE Exc("OSError")
    /\ UNCHANGED <<tableCols, store, days, now, conn, nClose, queries, rows, report,
                   first_partial_ms, first_final_ms, written, exitCode>>

\* md_path.write_text(render_markdown(report, db_path))
WriteMarkdown ==
    /\ pc = "dir_ready"
    /\ \E ok \in BOOLEAN :
          /\ pc' = IF ok THEN "md_written" ELSE "except"
          /\ exc' = IF ok THEN exc ELSE Exc("OSError")
          /\ written' = IF ok THEN written \cup {"md"} ELSE written
    /\ UNCHANGED <<tableCols, store, days, now, conn, nClose, queries, rows, report,
                   first_partial_ms, first_final_ms, exitCode>>

\* json_path.write_text(json.dumps(report)), then the two prints
WriteJson ==
    /\ pc = "md_written"
    /\ \E ok \in BOOLEAN :
          /\ pc' = IF ok THEN "finally" ELSE "except"
          /\ exc' = IF ok THEN exc ELSE Exc("OSError")
          /\ written' = IF ok THEN written \cup {"json"} ELSE written
    /\ UNCHANGED <<tableCols, store, days, now, conn, nClose, queries, rows, report,
                   first_partial_ms, first_final_ms, exitCode>>

\* except Exception: print the error, return 1, with no finally clause to follow
ExceptWithoutFinally ==
    /\ pc = "except"
    /\ exitCode' = 1
    /\ pc' = "done"
    /\ UNCHANGED <<tableCols, store, days, now, conn, nClose, queries, rows, exc, report,
                   first_partial_ms, first_final_ms, written>>

\* except Exception: print the error, return 1 (after the finally clause)
Except ==
    /\ pc = "except"
    /\ exitCode' = 1
    /\ pc' = "finally"
    /\ UNCHANGED <<tableCols, store, days, now, conn, nClose, queries, rows, exc, report,
                   first_partial_ms, first_final_ms, written>>

\* finally: conn.close(); then the pending return 1, or return 0
Finally ==
    /\ pc = "finally"
    /\ conn' = "closed"
    /\ nClose' = nClose + 1
    /\ exitCode' = IF exitCode = -1 THEN 0 ELSE exitCode
    /\ pc' = "done"
    /\ UNCHANGED <<tableCols, store, days, now, queries, rows, exc, report,
                   first_partial_ms, first_final_ms, written>>

(***************************************************************************)
(* Inputs.                                                                 *)
(***************************************************************************)
Row(provider, transcript, status, created, mode, partial, final, fb, code) ==
    [asr_provider_id |-> provider, transcript_final |-> transcript, status |-> status,
     created_at |-> created, stream_mode |-> mode, first_partial_ms |-> partial,
     first_final_ms |-> final, fallback_used |-> fb, error_code |-> code]

NowSec == 100 * SecondsPerDay
DaysAgo(k) == IntV(NowSec - k * SecondsPerDay)

Hi == Text(<<"h", "i">>)
Success == Text(<<"s", "u", "c", "c", "e", "s", "s">>)
Failed == Text(<<"e", "r", "r", "o", "r">>)
ProviderA == Text(<<"a">>)
ProviderB == Text(<<"B">>)
Live == Text(<<"L", "i", "v", "e">>)
CodeE1 == Text(<<"E", "1">>)

\* The rows below keep fallback_used to NULL or an integer, the type the recording
\* application writes; the latency columns range over every SQLite storage class.

\* A row that sets every optional column, and one that leaves them all NULL.
RichRow(created) ==
    Row(ProviderB, Null, Failed, created, Live, IntV(120), Text(<<"4", "5">>), IntV(1), CodeE1)
PlainRow(created) ==
    Row(ProviderA, Hi, Success, created, Null, Null, Null, Null, Null)

\* The rows a store of the pipeline specification may hold.
StoreRows ==
    {RichRow(DaysAgo(k)) : k \in {40, 10, 5}}
    \cup {PlainRow(DaysAgo(k)) : k \in {40, 10, 5}}
    \cup {PlainRow(Null)}
    \cup {Row(ProviderA, Hi, Success, DaysAgo(5), Null, InfV, Null, Null, Null)}

\* The schemas of the recordings table: every choice of optional columns with all
\* required ones, and every choice of required columns with all optional ones.
RequiredColumns == {"asr_provider_id", "transcript_final", "status", "created_at"}
OptionalColumns ==
    {"stream_mode", "first_partial_ms", "first_final_ms", "fallback_used", "error_code"}

Schemas ==
    {RequiredColumns \cup o : o \in SUBSET OptionalColumns}
    \cup {r \cup OptionalColumns : r \in SUBSET RequiredColumns}

DaysChoices == {0, 10}

\* The slices of build_metrics' input: each varies the columns one aggregate reads.
StatusRows ==
    {Row(ProviderA, Hi, s, DaysAgo(5), Null, Null, Null, Null, Null) :
        s \in {Success, Text(<<"S", "U", "C", "C", "E", "S", "S">>), Failed, Text(<<>>), Null,
               Text(<<" ", "s", "u", "c", "c", "e", "s", "s">>)}}

GroupRows ==
    {Row(pr, Hi, Success, DaysAgo(5), m, Null, Null, Null, Null) :
        pr \in {ProviderA, ProviderB, Null}, m \in {Null, Live}}

CodeRows ==
    {Row(ProviderA, Hi, Failed, DaysAgo(5), Null, Null, Null, Null, c) :
        c \in {Null, Text(<<>>), Text(<<" ">>), CodeE1, Text(<<"e", "1">>),
               Text(<<" ", "E", "1">>)}}

RateRows ==
    {Row(g[1], tr, Success, DaysAgo(5), g[2], Null, Null, fb, Null) :
        g \in {<<ProviderA, Null>>, <<ProviderB, Live>>},
        tr \in {Null, Text(<<" ">>), Hi},
        fb \in {Null, IntV(1)}}
    \cup {Row(ProviderA, Hi, Success, DaysAgo(5), Null, Null, Null, IntV(0), Null)}

LatencyRows ==
    {Row(ProviderA, Hi, Success, DaysAgo(5), Null, v, Null, Null, Null) :
        v \in {Null, IntV(10), Text(<<"x">>), Text(<<" ", "1", "2", " ">>), RealV(37), InfV}}
    \cup {Row(ProviderA, Hi, Success, DaysAgo(5), Null, IntV(10), v, Null, Null) :
        v \in {IntV(0), Text(<<>>), InfV}}

SampleRow(v) == Row(ProviderA, Hi, Success, DaysAgo(5), Null, IntV(v), IntV(v), Null, Null)
SampleRows == {SampleRow(v) : v \in {10, 20, 30}}

AggInputs ==
    SeqsUpTo(StatusRows, MaxRows)
    \cup SeqsUpTo(GroupRows, MaxRows)
    \cup SeqsUpTo(CodeRows, MaxRows)
    \cup SeqsUpTo(RateRows, MaxRows)
    \cup SeqsUpTo(LatencyRows, MaxRows)
    \cup SeqsUpTo(SampleRows, MaxSamples)
    \cup {<<SampleRow(10), SampleRow(20), SampleRow(30), SampleRow(40), SampleRow(50)>>}

(***************************************************************************)
(* Specifications.                                                         *)
(***************************************************************************)
\* A run of main over a store.
Init ==
    /\ pc = "start"
    /\ tableCols \in Schemas
    /\ store \in SeqsUpTo(StoreRows, MaxStore)
    /\ days \in DaysChoices
    /\ now = NowSec
    /\ conn = "none"
    /\ nClose = 0
    /\ queries = <<>>
    /\ rows = <<>>
    /\ exc = NoExc
    /\ report = NoReport
    /\ first_partial_ms = <<>>
    /\ first_final_ms = <<>>
    /\ written = {}
    /\ exitCode = -1

Next ==
    \/ Connect
    \/ ConnectFails
    \/ LoadRows
    \/ BuildMetrics
    \/ MakeOutputDir
    \/ WriteMarkdown
    \/ WriteJson
    \/ Except
    \/ Finally

Spec == Init /\ [][Next]_vars

\* build_metrics as a function of its arguments: main stands at the call, with
\* any row sequence of the slices as what load_rows returned.
InitAgg ==
    /\ pc = "loaded"
    /\ tableCols = RequiredColumns \cup OptionalColumns
    /\ rows \in AggInputs
    /\ store = rows
    /\ days \in DaysChoices
    /\ now = NowSec
    /\ conn = "open"
    /\ nClose = 0
    /\ queries = <<"PRAGMA", "SELECT">>
    /\ exc = NoExc
    /\ report = NoReport
    /\ first_partial_ms = <<>>
    /\ first_final_ms = <<>>
    /\ written = {}
    /\ exitCode = -1

NextAgg == BuildMetrics

SpecAgg == InitAgg /\ [][NextAgg]_vars

(***************************************************************************)
(* Properties.                                                             *)
(***************************************************************************)
Count(P(_)) == Cardinality({i \in 1..Len(rows) : P(rows[i])})

\* The least index of a row satisfying P.
FirstIndex(P(_)) ==
    CHOOSE i \in 1..Len(rows) : P(rows[i]) /\ \A j \in 1..(i - 1) : ~P(rows[j])

\* A float r is num/den, and 0.0 when den is 0.
RateIs(r, num, den) ==
    IF den = 0 THEN r = Zero ELSE r[2] > 0 /\ r[1] * den = num * r[2]

InUnitInterval(r) == r[2] > 0 /\ 0 <= r[1] /\ r[1] <= r[2]

SuccessLetters ==
    <<{"s", "S"}, {"u", "U"}, {"c", "C"}, {"c", "C"}, {"e", "E"}, {"s", "S"}, {"s", "S"}>>

\* The row's status equals "success" up to the case of its letters.
StatusIsSuccess(r) ==
    /\ r.status.kind = "text"
    /\ Len(r.status.s) = 7
    /\ \A i \in 1..7 : r.status.s[i] \in SuccessLetters[i]

\* C1: a report built from s rows whose status is "success" case-insensitively and e
\* rows of any other status has totals.success = s, totals.errors = e,
\* totals.recordings = s + e, and rates.error_rate = e/(s+e), 0.0 when s + e = 0.
C1_Totals ==
    report.built =>
        LET s == Count(StatusIsSuccess)
            e == Len(rows) - s
        IN  /\ report.totals.success = s
            /\ report.totals.errors = e
            /\ report.totals.recordings = s + e
            /\ report.totals.success + report.totals.errors = report.totals.recordings
            /\ RateIs(report.rates.error_rate, e, s + e)

C1_Witness ==
    /\ report.built
    /\ \E i \in 1..Len(rows) : rows[i].status = Text(<<"S", "U", "C", "C", "E", "S", "S">>)
    /\ \E i \in 1..Len(rows) : rows[i].status = Null
    /\ \E i \in 1..Len(rows) : rows[i].status = Text(<<" ", "s", "u", "c", "c", "e", "s", "s">>)
    /\ report.totals.success = 1
    /\ report.totals.errors = 2

\* The keys under which a row is grouped.
ProviderOf(r) ==
    IF r.asr_provider_id.kind = "null" THEN <<"u", "n", "k", "n", "o", "w", "n">>
    ELSE Lower(r.asr_provider_id.s)
ModeOf(r) ==
    IF r.stream_mode.kind = "null" THEN <<"b", "a", "t", "c", "h">> ELSE Lower(r.stream_mode.s)
HasCode(r, code) ==
    r.error_code.kind = "text" /\ r.error_code.s # <<>> /\ Strip(r.error_code.s) = code

\* list is in descending order of Cnt, entries of equal Cnt in the order of First.
OrderedByCountThenFirstSeen(list, Cnt(_), First(_)) ==
    \A i, j \in 1..Len(list) :
        i < j => \/ Cnt(list[i]) > Cnt(list[j])
                 \/ Cnt(list[i]) = Cnt(list[j]) /\ First(list[i]) < First(list[j])

\* C2: providers, modes, error_codes and provider_mode_matrix are each in descending
\* order of count, and entries of equal count are in the order in which their keys
\* were first seen in the input rows.
C2_Ordering ==
    report.built =>
        /\ OrderedByCountThenFirstSeen(report.providers,
              LAMBDA x : x.recordings,
              LAMBDA x : FirstIndex(LAMBDA r : ProviderOf(r) = x.name))
        /\ OrderedByCountThenFirstSeen(report.modes,
              LAMBDA x : x.recordings,
              LAMBDA x : FirstIndex(LAMBDA r : ModeOf(r) = x.name))
        /\ OrderedByCountThenFirstSeen(report.error_codes,
              LAMBDA x : x.count,
              LAMBDA x : FirstIndex(LAMBDA r : HasCode(r, x.code)))
        /\ OrderedByCountThenFirstSeen(report.provider_mode_matrix,
              LAMBDA x : x.recordings,
              LAMBDA x : FirstIndex(LAMBDA r : ProviderOf(r) = x.provider /\ ModeOf(r) = x.mode))

\* Three providers tie, and the report lists them as first seen: B, NULL, a.
C2_Witness ==
    /\ report.built
    /\ Len(rows) = 3
    /\ rows[1].asr_provider_id = ProviderB
    /\ rows[2].asr_provider_id = Null
    /\ rows[3].asr_provider_id = ProviderA
    /\ Len(report.providers) = 3
    /\ report.providers[1].name = <<"b">>
    /\ report.providers[2].name = <<"u", "n", "k", "n", "o", "w", "n">>
    /\ report.providers[3].name = <<"a">>
    /\ report.providers[1].recordings = report.providers[3].recordings

\* k is what round(0.9 * (n - 1)) yields: the integer nearest to 9(n-1)/10, and of
\* the two integers equally near, the even one.
IsRoundedRank(k, n) ==
    LET d == 10 * k - 9 * (n - 1)
    IN  \/ -5 < d /\ d < 5
        \/ d \in {-5, 5} /\ k % 2 = 0

\* v stands at index k (from 0) of the samples sorted ascending.
AtSortedIndex(samples, k, v) ==
    /\ \E i \in 1..Len(samples) : samples[i] = v
    /\ Cardinality({i \in 1..Len(samples) : samples[i] < v}) <= k
    /\ Cardinality({i \in 1..Len(samples) : samples[i] <= v}) > k

P90IsNearestRank(samples, p90) ==
    samples # <<>> =>
        /\ p90[2] = 1
        /\ \E k \in 0..(Len(samples) - 1) :
              IsRoundedRank(k, Len(samples)) /\ AtSortedIndex(samples, k, p90[1])
        /\ Len(samples) = 1 => p90[1] = samples[1]
        /\ samples = <<10, 20, 30, 40, 50>> => p90[1] = 50

\* C3: the p90 of a non-empty sample list is the sample at index round(0.9*(n-1)),
\* clamped to [0, n-1], of the list sorted ascending: one of the samples, v for [v],
\* 50 for [10, 20, 30, 40, 50]; and the caller's list keeps its order.
C3_P90 ==
    report.built =>
        /\ P90IsNearestRank(first_partial_ms, report.latency.first_partial_ms.p90)
        /\ P90IsNearestRank(first_final_ms, report.latency.first_final_ms.p90)
        /\ (\A i \in 1..Len(rows) : rows[i].first_partial_ms.kind = "int") =>
              first_partial_ms = [i \in 1..Len(rows) |-> rows[i].first_partial_ms.n]
        /\ (\A i \in 1..Len(rows) : rows[i].first_final_ms.kind = "int") =>
              first_final_ms = [i \in 1..Len(rows) |-> rows[i].first_final_ms.n]

\* Six unsorted samples: 0.9 * 5 = 4.5 rounds to 4, the second largest.
C3_Witness ==
    /\ report.built
    /\ first_partial_ms = <<30, 10, 20, 10, 10, 10>>
    /\ report.latency.first_partial_ms.p90 = Float(20)

\* The transcript is absent or blank.
TranscriptIsEmpty(r) ==
    \/ r.transcript_final.kind = "null"
    \/ r.transcript_final.kind = "text"
       /\ \A i \in 1..Len(r.transcript_final.s) : r.transcript_final.s[i] \in Whitespace

UsedFallback(r) == r.fallback_used.kind = "int" /\ r.fallback_used.n # 0

GroupRates(list, KeyOf(_)) ==
    \A i \in 1..Len(list) :
        LET n == Count(LAMBDA r : KeyOf(r) = list[i].name)
        IN  /\ list[i].recordings = n
            /\ InUnitInterval(list[i].empty_final_rate)
            /\ InUnitInterval(list[i].fallback_rate)
            /\ RateIs(list[i].empty_final_rate,
                      Count(LAMBDA r : KeyOf(r) = list[i].name /\ TranscriptIsEmpty(r)), n)
            /\ RateIs(list[i].fallback_rate,
                      Count(LAMBDA r : KeyOf(r) = list[i].name /\ UsedFallback(r)), n)

\* C4: every rate of the report lies in [0, 1] and is numerator/denominator, the
\* denominator being totals.recordings for the top-level rates and the group's own
\* recording count for the per-provider and per-mode rates; it is 0.0 when the
\* denominator is 0.
C4_Rates ==
    report.built =>
        /\ report.totals.recordings = Len(rows)
        /\ InUnitInterval(report.rates.error_rate)
        /\ InUnitInterval(report.rates.empty_final_rate)
        /\ InUnitInterval(report.rates.fallback_rate)
        /\ RateIs(report.rates.error_rate,
                  Count(LAMBDA r : ~StatusIsSuccess(r)), report.totals.recordings)
        /\ RateIs(report.rates.empty_final_rate,
                  Count(TranscriptIsEmpty), report.totals.recordings)
        /\ RateIs(report.rates.fallback_rate, Count(UsedFallback), report.totals.recordings)
        /\ GroupRates(report.providers, ProviderOf)
        /\ GroupRates(report.modes, ModeOf)

\* Two providers; one has a blank transcript in one of its two recordings.
C4_Witness ==
    /\ report.built
    /\ Len(report.providers) = 2
    /\ \E i \in 1..2 :
          /\ report.providers[i].recordings = 2
          /\ report.providers[i].empty_final = 1
          /\ report.providers[i].fallback = 2
    /\ \E i \in 1..Len(rows) : rows[i].transcript_final = Text(<<" ">>)
    /\ report.totals.fallback_used = 2

\* C8: build_metrics on no rows returns all totals 0, all rates 0.0, both latency
\* metrics with count 0 and mean, median and p90 None, the four lists empty, and
\* window_days as given.
C8_EmptyInput ==
    (report.built /\ rows = <<>>) =>
        /\ report.window_days = days
        /\ report.totals = [recordings |-> 0, success |-> 0, errors |-> 0,
                            empty_final |-> 0, fallback_used |-> 0]
        /\ report.rates = [error_rate |-> <<0, 1>>, empty_final_rate |-> <<0, 1>>,
                           fallback_rate |-> <<0, 1>>]
        /\ \A m \in {"first_partial_ms", "first_final_ms"} :
              report.latency[m] = [count |-> 0, mean |-> None, median |-> None, p90 |-> None]
        /\ report.providers = <<>>
        /\ report.modes = <<>>
        /\ report.error_codes = <<>>
        /\ report.provider_mode_matrix = <<>>

C8_Witness == report.built /\ rows = <<>> /\ days = 10 /\ report.window_days = 10

\* The row's error_code is non-empty after trimming whitespace.
HasNonBlankCode(r) ==
    r.error_code.kind = "text" /\ \E i \in 1..Len(r.error_code.s) : r.error_code.s[i] \notin Whitespace

\* C9: only rows whose error_code is non-empty after trimming add to error_codes: no
\* entry has an empty code, the counts sum to the number of rows with a non-blank
\* error_code, and codes differing in case are separate entries.
C9_ErrorCodes ==
    report.built =>
        /\ \A i \in 1..Len(report.error_codes) : report.error_codes[i].code # <<>>
        /\ SumSeq([i \in 1..Len(report.error_codes) |-> report.error_codes[i].count])
              = Count(HasNonBlankCode)
        /\ \A i \in 1..Len(report.error_codes) :
              report.error_codes[i].count
                 = Count(LAMBDA r : HasNonBlankCode(r) /\ Strip(r.error_code.s) = report.error_codes[i].code)

\* The value is present and int() accepts it.
IsIntCoercible(v) ==
    \/ v.kind \in {"int", "real"}
    \/ v.kind = "text" /\ ParseInt(v.s).exc = "none"

\* C10: each latency count is the number of rows whose value for the field is
\* present and integer-coercible; any other row is left out of that metric only,
\* is still counted in the totals, and never makes build_metrics fail.
C10_LatencySamples ==
    /\ exc.type = "none"
    /\ pc # "loaded" =>
          /\ report.built
          /\ report.totals.recordings = Len(rows)
          /\ report.latency.first_partial_ms.count
                = Count(LAMBDA r : IsIntCoercible(r.first_partial_ms))
          /\ report.latency.first_final_ms.count
                = Count(LAMBDA r : IsIntCoercible(r.first_final_ms))

\* C5: when a required column is absent from the table, load_rows fails with an
\* error naming every missing required column, before any row is queried; no
\* aggregation and no output write follows, and main returns 1.
C5_SchemaError ==
    (conn # "none" /\ pc # "connected" /\ RequiredColumns \ tableCols # {}) =>
        /\ exc.type = "RuntimeError"
        /\ Range(exc.cols) = RequiredColumns \ tableCols
        /\ "SELECT" \notin Range(queries)
        /\ rows = <<>>
        /\ ~report.built
        /\ written = {}
        /\ pc \in {"except", "finally", "done"}
        /\ pc = "done" => exitCode = 1

\* A non-empty store lacks status and created_at; main has returned.
C5_Witness ==
    /\ pc = "done"
    /\ tableCols = (RequiredColumns \cup OptionalColumns) \ {"status", "created_at"}
    /\ exc = [type |-> "RuntimeError", cols |-> <<"created_at", "status">>]
    /\ queries = <<"PRAGMA">>
    /\ Len(store) = 2
    /\ exitCode = 1

\* C6: with the four required columns and any subset of the optional ones,
\* load_rows followed by build_metrics never raises; with all five optional columns
\* absent the report has no fallback, no latency sample, no error code, and only
\* the mode "batch".
C6_OptionalColumns ==
    RequiredColumns \subseteq tableCols =>
        /\ exc.type \in {"none", "FileNotFoundError", "OSError"}
        /\ (report.built /\ tableCols \cap OptionalColumns = {}) =>
              /\ report.totals.fallback_used = 0
              /\ report.latency.first_partial_ms.count = 0
              /\ report.latency.first_final_ms.count = 0
              /\ report.error_codes = <<>>
              /\ \A i \in 1..Len(report.modes) :
                    report.modes[i].name = <<"b", "a", "t", "c", "h">>

\* The indices of the stored rows that meet the cutoff, all of them when days is 0.
InWindowIndices ==
    {i \in 1..Len(store) :
        \/ days = 0
        \/ /\ store[i].created_at.kind = "int"
           /\ store[i].created_at.n >= now - days * 86400}

\* C7: load_rows with days > 0 returns exactly the stored rows whose created_at is
\* at least now - days days, and with days = 0 every stored row; in the store's
\* order, none twice.
C7_Window ==
    "SELECT" \in Range(queries) =>
        /\ Len(rows) = Cardinality(InWindowIndices)
        /\ \A k \in 1..Len(rows) :
              LET i == CHOOSE i \in InWindowIndices :
                          Cardinality({j \in InWindowIndices : j < i}) = k - 1
              IN  \A c \in tableCols : rows[k][c] = store[i][c]

\* days = 10: of a 40-day-old and a 5-day-old row only the second is returned.
C7_Witness ==
    /\ pc = "loaded"
    /\ days = 10
    /\ Len(store) = 2
    /\ store[1].created_at = DaysAgo(40)
    /\ store[2].created_at = DaysAgo(5)
    /\ Len(rows) = 1
    /\ rows[1].created_at = DaysAgo(5)

\* C11: once main has opened the connection it closes it exactly once before it
\* returns, whichever way it leaves the try block (success, or a failure of
\* load_rows, build_metrics, rendering or either write); the connection is open
\* before load_rows runs, and when resolving or opening the store fails there is
\* no connection and none is closed.
C11_ConnectionClosedOnce ==
    /\ nClose \in {0, 1}
    /\ conn = "closed" <=> nClose = 1
    /\ conn = "none" <=> (pc = "start" \/ (pc = "done" /\ exc.type = "FileNotFoundError"))
    /\ pc \in {"connected", "loaded", "built", "dir_ready", "md_written", "except", "finally"}
          => conn = "open"
    /\ queries # <<>> => conn # "none"
    /\ pc = "done" =>
          /\ conn \in {"none", "closed"}
          /\ conn = "closed" => nClose = 1
          /\ conn = "none" => nClose = 0 /\ queries = <<>> /\ exitCode = 1
          /\ exitCode = 0 <=> (exc.type = "none" /\ written = {"md", "json"})

\* main has returned 1 after the markdown file was written and the json write failed.
C11_Witness ==
    /\ pc = "done"
    /\ exc.type = "OSError"
    /\ written = {"md"}
    /\ conn = "closed"
    /\ nClose = 1
    /\ exitCode = 1
=============================================================================
